---------------------------- MODULE Spec2Model ----------------------------
(***************************************************************************)
(* A model of unify.py (the generic unification algorithm and the tuple    *)
(* term algebra GeneralUnifier) and of combinator_calculus.py (the SK      *)
(* term model, its printer, parser, reduction engine and the term-algebra  *)
(* adapter).  One behaviour is one call of one entry point: Init draws the *)
(* entry point and its arguments, the actions run it.                      *)
(*                                                                         *)
(* Encoding of Python values.  A value carries its run-time type as its    *)
(* first component:                                                        *)
(*   a tuple (f, a1, ..., an)   <<"tuple", f, a1, ..., an>>                *)
(*   a non-tuple (a variable)   <<"var", name>>                            *)
(*   Var(name)                  <<"Var", name>>   name a sequence of chars *)
(*   PrimComb(name)             <<"PrimComb", <<name>>>>                   *)
(*   App(left, right)           <<"App", left, right>>                     *)
(*   the class App              <<"class", <<"App">>>>                     *)
(*   None                       <<"None">>                                 *)
(* A str is a sequence of one-character strings.                           *)
(***************************************************************************)
EXTENDS Integers, Sequences, FiniteSets, TLC

VARIABLES op, pc, equations, subst, eqs0, subst0, supplied,
          src, term, term0, fsym, fargs, result

vars == <<op, pc, equations, subst, eqs0, subst0, supplied,
          src, term, term0, fsym, fargs, result>>

None == <<"None">>

Min(a, b) == IF a <= b THEN a ELSE b

(***************************************************************************)
(* GeneralUnifier: the tuple term algebra.                                 *)
(***************************************************************************)
GenApply(f, as) == <<"tuple", f>> \o as

GenIsVar(t) == t[1] /= "tuple"

GenFunSym(t) == t[2]

GenArgs(t) == SubSeq(t, 3, Len(t))

(***************************************************************************)
(* Unifier.occurs_in and Unifier.subst over GeneralUnifier.  A dict is a   *)
(* function whose domain is its set of keys.                               *)
(***************************************************************************)
RECURSIVE occurs_in(_, _)
occurs_in(var, t) ==
    IF GenIsVar(t) THEN var = t
    ELSE \E i \in 1..Len(GenArgs(t)) : occurs_in(var, GenArgs(t)[i])

RECURSIVE subst_(_, _)
subst_(s, t) ==
    IF GenIsVar(t) THEN (IF t \in DOMAIN s THEN s[t] ELSE t)
    ELSE GenApply(GenFunSym(t),
                  [i \in 1..Len(GenArgs(t)) |-> subst_(s, GenArgs(t)[i])])

EmptyDict == [v \in {} |-> v]

\* zip(a, b): pairs by position, up to the shorter sequence
Zip(a, b) == [i \in 1..Min(Len(a), Len(b)) |-> <<a[i], b[i]>>]

(***************************************************************************)
(* The inputs of unify.                                                    *)
(***************************************************************************)
MaxArity == 2

Vars == {<<"var", "x">>, <<"var", "y">>}
FunSyms == {"f", "g"}
Leaves == Vars \cup {GenApply(f, <<>>) : f \in FunSyms}
ArgSeqs == UNION {[1..n -> Leaves] : n \in 0..MaxArity}
GenTerms == Vars \cup {GenApply(f, as) : f \in FunSyms, as \in ArgSeqs}
\* the initial substitutions: empty, or one variable bound to a leaf
Dicts == UNION {[D -> Leaves] : D \in {{}} \cup {{v} : v \in Vars}}

\* the sides of the equations of a list of two
SmallTerms == Vars \cup {GenApply(f, <<v>>) : f \in FunSyms, v \in Vars}

\* the equation lists: one equation between terms, or two between small terms
InitUnify ==
    /\ op = "unify"
    /\ pc = "run"
    /\ \/ \E l \in GenTerms, r \in GenTerms : eqs0 = <<<<l, r>>>>
       \/ \E l1 \in SmallTerms, r1 \in SmallTerms, l2 \in SmallTerms, r2 \in SmallTerms :
             eqs0 = <<<<l1, r1>>, <<l2, r2>>>>
    /\ \/ supplied = FALSE /\ subst0 = EmptyDict
       \/ supplied = TRUE /\ subst0 \in Dicts
    /\ equations = eqs0
    /\ subst = subst0
    /\ src = <<>> /\ term = None /\ term0 = None
    /\ fsym = None /\ fargs = <<>> /\ result = None

(***************************************************************************)
(* combinator_calculus.py: the term model and its printer.                 *)
(***************************************************************************)
Var(name) == <<"Var", name>>
PrimComb(name) == <<"PrimComb", <<name>>>>
App(left, right) == <<"App", left, right>>
PrimS == PrimComb("S")
PrimK == PrimComb("K")
AppClass == <<"class", <<"App">>>>

IsVar(t) == t[1] = "Var"
IsPrimComb(t) == t[1] = "PrimComb"
IsApp(t) == t[1] = "App"
Left(t) == t[2]
Right(t) == t[3]

\* Var.__str__
VarStr(t) == IF Len(t[2]) = 1 THEN t[2] ELSE <<"<">> \o t[2] \o <<">">>

AppStrNoBrackets(t, left_str, right_str) == left_str \o right_str

\* App.__str__, given the strings of the two children
AppStr(t, left_str, right_str) ==
    left_str \o (IF IsApp(Right(t)) THEN <<"(">> \o right_str \o <<")">>
                 ELSE right_str)

RECURSIVE Str(_)
Str(t) ==
    IF IsVar(t) THEN VarStr(t)
    ELSE IF IsPrimComb(t) THEN t[2]
    ELSE AppStr(t, Str(Left(t)), Str(Right(t)))

(***************************************************************************)
(* parse_term and parse.  An index is 0-based as in the source; a result   *)
(* is <<"ok", term, i>> or <<"ValueError", message>>.                      *)
(***************************************************************************)
acc_append(acc, t) == IF acc = None THEN t ELSE App(acc, t)

\* the code after the while loop
ParseTermEnd(acc, i) ==
    IF acc = None THEN <<"ValueError", "empty">> ELSE <<"ok", acc, i>>

RECURSIVE ParseLoop(_, _, _, _)
ParseLoop(s, i0, i, acc) ==
    IF i < Len(s)
    THEN LET char == s[i + 1] IN
         IF char \in {"S", "K"}
         THEN ParseLoop(s, i0, i + 1, acc_append(acc, PrimComb(char)))
         ELSE IF char = "("
         THEN LET sub == ParseLoop(s, i + 1, i + 1, None) IN
              IF sub[1] /= "ok" THEN sub
              ELSE ParseLoop(s, i0, sub[3], acc_append(acc, sub[2]))
         ELSE IF char = ")"
         THEN ParseTermEnd(acc, i + 1)
         ELSE <<"ValueError", "invalid character">>
    ELSE IF i0 /= 0
         THEN <<"ValueError", "opening bracket not closed">>
         ELSE ParseTermEnd(acc, i)

parse_term(s, i0) == ParseLoop(s, i0, i0, None)

parse(s) ==
    LET r == parse_term(s, 0) IN
    IF r[1] /= "ok" THEN r
    ELSE IF r[3] /= Len(s) THEN <<"ValueError", "extraneous closing bracket">>
    ELSE <<"ok", r[2]>>

(***************************************************************************)
(* reduce1.                                                                *)
(***************************************************************************)
RECURSIVE reduce1(_)
reduce1(t) ==
    IF IsVar(t) \/ IsPrimComb(t) THEN t
    ELSE IF IsApp(Left(t)) /\ IsApp(Left(Left(t))) /\ Left(Left(Left(t))) = PrimS
    THEN App(App(Right(Left(Left(t))), Right(t)), App(Right(Left(t)), Right(t)))
    ELSE IF IsApp(Left(t)) /\ Left(Left(t)) = PrimK
    THEN Right(Left(t))
    ELSE LET left_reduced == reduce1(Left(t)) IN
         IF left_reduced = None
         THEN LET right_reduced == reduce1(Right(t)) IN
              IF right_reduced = None THEN None
              ELSE App(Left(t), right_reduced)
         ELSE App(left_reduced, Right(t))

(***************************************************************************)
(* The adapter Unifier of combinator_calculus.py.  A raised ValueError is   *)
(* the value <<"ValueError">>.                                             *)
(***************************************************************************)
ValueError == <<"ValueError">>

CombApply(f, as) ==
    IF IsPrimComb(f) THEN f
    ELSE IF f = AppClass /\ Len(as) = 2 THEN App(as[1], as[2])
    ELSE ValueError

CombFunSym(t) ==
    IF IsPrimComb(t) THEN t
    ELSE IF IsApp(t) THEN AppClass
    ELSE ValueError

CombArgsSwapped(t) ==
    IF IsPrimComb(t) THEN <<>>
    ELSE IF IsApp(t) THEN <<Right(t), Left(t)>>
    ELSE ValueError

CombArgs(t) ==
    IF IsPrimComb(t) THEN <<>>
    ELSE IF IsApp(t) THEN <<Left(t), Right(t)>>
    ELSE ValueError

(***************************************************************************)
(* The inputs of the combinator operations.                                *)
(***************************************************************************)
MaxLeaves == 4
MaxLen == 4
MaxArgs == 3

CombLeaves == {PrimS, PrimK, Var(<<"x">>)}

RECURSIVE CombTermsOfSize(_)
CombTermsOfSize(n) ==
    IF n = 1 THEN CombLeaves
    ELSE UNION {{App(l, r) : l \in CombTermsOfSize(k), r \in CombTermsOfSize(n - k)}
                : k \in 1..(n - 1)}

CombTerms == UNION {CombTermsOfSize(n) : n \in 1..MaxLeaves}
Chars == {"S", "K", "(", ")", "x"}
Sources == UNION {[1..n -> Chars] : n \in 0..MaxLen}
CombFunSyms == {PrimS, PrimK, AppClass}
CombArgSeqs == UNION {[1..n -> CombTermsOfSize(1) \cup CombTermsOfSize(2)] : n \in 0..MaxArgs}

NoUnify ==
    /\ equations = <<>> /\ subst = EmptyDict /\ eqs0 = <<>>
    /\ subst0 = EmptyDict /\ supplied = FALSE

InitParse ==
    /\ op = "parse" /\ pc = "parse"
    /\ src \in Sources
    /\ term = None /\ term0 = None /\ fsym = None /\ fargs = <<>> /\ result = None
    /\ NoUnify

\* str(t) followed by parse
InitRoundTrip ==
    /\ op = "roundtrip" /\ pc = "str"
    /\ term0 \in CombTerms /\ term = term0
    /\ src = <<>> /\ fsym = None /\ fargs = <<>> /\ result = None
    /\ NoUnify

InitReduce ==
    /\ op \in {"reduce1", "reduce"} /\ pc = "run"
    /\ term0 \in CombTerms /\ term = term0
    /\ src = <<>> /\ fsym = None /\ fargs = <<>> /\ result = None
    /\ NoUnify

InitLaws ==
    /\ pc = "run"
    /\ \/ op = "GeneralUnifier" /\ fsym \in FunSyms /\ fargs \in ArgSeqs
       \/ op = "Unifier" /\ fsym \in CombFunSyms /\ fargs \in CombArgSeqs
    /\ src = <<>> /\ term = None /\ term0 = None /\ result = None
    /\ NoUnify

Init == InitUnify \/ InitParse \/ InitRoundTrip \/ InitReduce \/ InitLaws

(***************************************************************************)
(* Unifier.unify: one action per branch of one iteration of the loop.      *)
(***************************************************************************)
Running == op = "unify" /\ pc = "run"

Popped == equations[Len(equations)]
Rest == SubSeq(equations, 1, Len(equations) - 1)

SymbolsOrArityDiffer(l, r) ==
    GenFunSym(l) /= GenFunSym(r) \/ Len(GenArgs(l)) /= Len(GenArgs(r))

SymbolsDiffer(l, r) == GenFunSym(l) /= GenFunSym(r)

Keep == UNCHANGED <<op, eqs0, subst0, supplied, src, term, term0, fsym, fargs>>

UnifyReturn ==
    /\ Running /\ equations = <<>>
    /\ pc' = "done" /\ result' = subst
    /\ UNCHANGED <<equations, subst>> /\ Keep

UnifySkip ==
    /\ Running /\ equations /= <<>>
    /\ Popped[1] = Popped[2]
    /\ equations' = Rest
    /\ UNCHANGED <<pc, subst, result>> /\ Keep

UnifyOccursFail ==
    /\ Running /\ equations /= <<>>
    /\ Popped[1] /= Popped[2]
    /\ GenIsVar(Popped[1])
    /\ occurs_in(Popped[1], Popped[2])
    /\ equations' = Rest
    /\ pc' = "raised" /\ result' = <<"UnificationError", "occurs">>
    /\ UNCHANGED subst /\ Keep

UnifyBind ==
    /\ Running /\ equations /= <<>>
    /\ Popped[1] /= Popped[2]
    /\ GenIsVar(Popped[1])
    /\ ~occurs_in(Popped[1], Popped[2])
    /\ LET left == Popped[1]
           right == Popped[2]
           new_subst == [v \in {left} |-> right]
       IN /\ equations' = [i \in 1..Len(Rest) |->
                             <<subst_(new_subst, Rest[i][1]),
                               subst_(new_subst, Rest[i][2])>>]
          /\ subst' = [v \in DOMAIN subst \cup {left} |->
                         IF v = left THEN right
                         ELSE subst_(new_subst, subst[v])]
    /\ UNCHANGED <<pc, result>> /\ Keep

UnifySwap ==
    /\ Running /\ equations /= <<>>
    /\ Popped[1] /= Popped[2]
    /\ ~GenIsVar(Popped[1])
    /\ GenIsVar(Popped[2])
    /\ equations' = Append(Rest, <<Popped[2], Popped[1]>>)
    /\ UNCHANGED <<pc, subst, result>> /\ Keep

UnifyMismatch ==
    /\ Running /\ equations /= <<>>
    /\ Popped[1] /= Popped[2]
    /\ ~GenIsVar(Popped[1])
    /\ ~GenIsVar(Popped[2])
    /\ SymbolsDiffer(Popped[1], Popped[2])
    /\ equations' = Rest
    /\ pc' = "raised" /\ result' = <<"UnificationError", "mismatch">>
    /\ UNCHANGED subst /\ Keep

UnifyDecompose ==
    /\ Running /\ equations /= <<>>
    /\ Popped[1] /= Popped[2]
    /\ ~GenIsVar(Popped[1])
    /\ ~GenIsVar(Popped[2])
    /\ ~SymbolsDiffer(Popped[1], Popped[2])
    /\ equations' = Rest \o Zip(GenArgs(Popped[1]), GenArgs(Popped[2]))
    /\ UNCHANGED <<pc, subst, result>> /\ Keep

(***************************************************************************)
(* The combinator operations.                                              *)
(***************************************************************************)
KeepUnify == UNCHANGED <<op, equations, subst, eqs0, subst0, supplied>>

StrCall ==
    /\ op = "roundtrip" /\ pc = "str"
    /\ src' = Str(term)
    /\ pc' = "parse"
    /\ UNCHANGED <<term, term0, fsym, fargs, result>> /\ KeepUnify

ParseCall ==
    /\ op \in {"parse", "roundtrip"} /\ pc = "parse"
    /\ result' = parse(src)
    /\ pc' = "done"
    /\ UNCHANGED <<src, term, term0, fsym, fargs>> /\ KeepUnify

Reduce1Call ==
    /\ op = "reduce1" /\ pc = "run"
    /\ result' = reduce1(term)
    /\ pc' = "done"
    /\ UNCHANGED <<src, term, term0, fsym, fargs>> /\ KeepUnify

\* one iteration of the loop of reduce
ReduceLoop ==
    /\ op = "reduce" /\ pc = "run"
    /\ LET reduced == reduce1(term) IN
       IF reduced = None
       THEN /\ pc' = "done" /\ result' = term
            /\ UNCHANGED term
       ELSE /\ term' = reduced
            /\ UNCHANGED <<pc, result>>
    /\ UNCHANGED <<src, term0, fsym, fargs>> /\ KeepUnify

\* fun_sym(apply(f, args)) and args(apply(f, args))
GeneralLaw ==
    /\ op = "GeneralUnifier" /\ pc = "run"
    /\ LET a == GenApply(fsym, fargs) IN
       result' = <<a, GenFunSym(a), GenArgs(a)>>
    /\ pc' = "done"
    /\ UNCHANGED <<src, term, term0, fsym, fargs>> /\ KeepUnify

CombLaw ==
    /\ op = "Unifier" /\ pc = "run"
    /\ LET a == CombApply(fsym, fargs) IN
       result' = IF a = ValueError THEN <<ValueError, None, <<>>>>
                 ELSE <<a, CombFunSym(a), CombArgs(a)>>
    /\ pc' = "done"
    /\ UNCHANGED <<src, term, term0, fsym, fargs>> /\ KeepUnify

Next ==
    \/ UnifyReturn
    \/ UnifySkip
    \/ UnifyOccursFail
    \/ UnifyBind
    \/ UnifySwap
    \/ UnifyMismatch
    \/ UnifyDecompose
    \/ StrCall
    \/ ParseCall
    \/ Reduce1Call
    \/ ReduceLoop
    \/ GeneralLaw
    \/ CombLaw

Spec == Init /\ [][Next]_vars

\* A call is sequential code without suspension points: while a step is
\* possible, one is taken.

FairSpec == Spec /\ WF_vars(Next)

(***************************************************************************)
(* Notions the properties are stated with.                                 *)
(***************************************************************************)
\* the variables of a term of the tuple algebra
RECURSIVE VarsOf(_)
VarsOf(t) ==
    IF t[1] = "var" THEN {t}
    ELSE UNION {VarsOf(t[i]) : i \in 3..Len(t)}

\* no key of the dict occurs in a term of its range
Closed(s) == \A v \in DOMAIN s : \A w \in DOMAIN s : v \notin VarsOf(s[w])

\* one application of s makes the two sides of every equation equal
Unifies(s, eqs) == \A i \in 1..Len(eqs) : subst_(s, eqs[i][1]) = subst_(s, eqs[i][2])

OccursSituation(eq) ==
    /\ eq[1][1] = "var"
    /\ eq[1] /= eq[2]
    /\ eq[1] \in VarsOf(eq[2])

MismatchSituation(eq) ==
    /\ eq[1][1] = "tuple"
    /\ eq[2][1] = "tuple"
    /\ eq[1][2] /= eq[2][2]

\* some prefix of s holds more closing than opening brackets
Count(s, c, n) == Cardinality({i \in 1..n : s[i] = c})
HasUnmatchedClose(s) == \E n \in 1..Len(s) : Count(s, ")", n) > Count(s, "(", n)

RECURSIVE VarFree(_)
VarFree(t) ==
    IF IsApp(t) THEN VarFree(Left(t)) /\ VarFree(Right(t)) ELSE ~IsVar(t)

\* the leftmost-outermost one-step function: None when there is no redex
IsSRedex(t) == IsApp(t) /\ IsApp(Left(t)) /\ IsApp(Left(Left(t))) /\ Left(Left(Left(t))) = PrimS
IsKRedex(t) == IsApp(t) /\ IsApp(Left(t)) /\ Left(Left(t)) = PrimK

RECURSIVE RefReduce1(_)
RefReduce1(t) ==
    IF ~IsApp(t) THEN None
    ELSE IF IsSRedex(t)
    THEN App(App(Right(Left(Left(t))), Right(t)), App(Right(Left(t)), Right(t)))
    ELSE IF IsKRedex(t) THEN Right(Left(t))
    ELSE IF RefReduce1(Left(t)) /= None THEN App(RefReduce1(Left(t)), Right(t))
    ELSE IF RefReduce1(Right(t)) /= None THEN App(Left(t), RefReduce1(Right(t)))
    ELSE None

SKK == App(App(PrimS, PrimK), PrimK)
IsSKKX(t) == IsApp(t) /\ Left(t) = SKK /\ RefReduce1(Right(t)) = None

\* the number of arguments a function symbol of the adapter takes
Arity(f) == IF f = AppClass THEN 2 ELSE 0

(***************************************************************************)
(* C1: soundness of unify over the tuple algebra.  When unify is called    *)
(* with the default initial substitution and returns s, one application of *)
(* s makes both sides of every equation of the original list equal.        *)
(***************************************************************************)
C1_Soundness ==
    (op = "unify" /\ pc = "done" /\ ~supplied) => Unifies(result, eqs0)

(***************************************************************************)
(* C2: substitution closure.  When unify succeeds from an initial          *)
(* substitution that is itself closed, no key of the returned substitution *)
(* occurs in a term of its range.                                          *)
(***************************************************************************)
C2_Closure ==
    (op = "unify" /\ pc = "done" /\ Closed(subst0)) => Closed(result)

(***************************************************************************)
(* C3: the result r of unify specializes a non-empty initial substitution: *)
(* subst(r, v) == subst(r, t) for every binding v -> t of it.              *)
(***************************************************************************)
C3_Specializes ==
    (op = "unify" /\ pc = "done" /\ supplied /\ DOMAIN subst0 /= {}) =>
        \A v \in DOMAIN subst0 : subst_(result, v) = subst_(result, subst0[v])

(***************************************************************************)
(* C4: an iteration of unify raises a UnificationError exactly when the    *)
(* popped equation has on the left a variable occurring in a different     *)
(* right-hand term, or is between applications of different function       *)
(* symbols; and every call ends, returning the substitution or raising.    *)
(***************************************************************************)
C4_FailsExactly ==
    /\ [][Running =>
            ((pc' = "raised") <=>
                (/\ equations /= <<>>
                 /\ OccursSituation(Popped) \/ MismatchSituation(Popped)))]_vars
    /\ [][(Running /\ pc' = "done") => (equations = <<>> /\ result' = subst)]_vars
    /\ (op = "unify") ~> (pc \in {"done", "raised"})

C4_Witness ==
    /\ op = "unify" /\ pc = "raised"
    /\ result = <<"UnificationError", "occurs">>
    /\ subst /= subst0

(***************************************************************************)
(* C5: parse fails for every input in which a closing bracket has no       *)
(* opening bracket before it, the last character included.                 *)
(***************************************************************************)
C5_UnmatchedCloseFails ==
    (op = "parse" /\ pc = "done" /\ HasUnmatchedClose(src)) => result[1] /= "ok"

(***************************************************************************)
(* C6: parse(str(t)) succeeds and equals t for every term t without Var.   *)
(***************************************************************************)
C6_RoundTrip ==
    (op = "roundtrip" /\ pc = "done" /\ VarFree(term0)) => result = <<"ok", term0>>

C6_Witness ==
    /\ op = "roundtrip" /\ pc = "done"
    /\ VarFree(term0)
    /\ IsApp(term0) /\ IsApp(Right(term0)) /\ IsApp(Left(term0))
    /\ result[1] = "ok"

(***************************************************************************)
(* C7: reduce1 returns what the leftmost-outermost one-step function       *)
(* returns, None for a term without a redex.                               *)
(***************************************************************************)
C7_Reduce1Reference ==
    (op = "reduce1" /\ pc = "done") => result = RefReduce1(term0)

(***************************************************************************)
(* C8: reduce(App(SKK, X)) eventually returns X, for X in normal form.     *)
(***************************************************************************)
C8_ReduceReturns ==
    (op = "reduce" /\ IsSKKX(term0)) ~>
        (op = "reduce" /\ pc = "done" /\ IsApp(term0) /\ result = Right(term0))

C10_NoPartialResult ==
    (op = "unify" /\ pc = "raised" /\ supplied) => subst = subst0

=============================================================================
